---- MODULE Spec2Model ----
(***************************************************************************)
(* The Alzheimer & Aging dashboard (d1.py): the loader with its two field  *)
(* coercions, the two filter stages, the map aggregate, and the three tabs *)
(* of one script run, rerun on every widget change.                        *)
(*                                                                         *)
(* Text is a sequence of one-character strings.  A float is an exact       *)
(* rational [n, d] in lowest terms (binary rounding is not modelled).      *)
(***************************************************************************)
EXTENDS Integers, Sequences, FiniteSets

VARIABLES
  file,           \* the input resource: readable or not, and its raw rows
  pc,             \* position of the script run
  df,             \* the script's df: unbound, None, or the cleaned table
  errors,         \* st.error diagnostics shown in this run, in order
  tema_sel,       \* selectbox "Tema"
  edad_sel,       \* selectbox "Grupo de Edad"
  widget,         \* the multiselect's session state (the user's choice)
  df_mapa,        \* primary result
  df_geo,         \* map aggregate
  estados_opts,   \* options= of the multiselect
  estados_def,    \* default= of the multiselect
  estados_sel,    \* what the multiselect returned
  df_filtered,    \* secondary result
  tab1, tab2, tab3, \* what each tab shows
  cache           \* st.cache_data's entry for load_data

vars == <<file, cache, pc, df, errors, tema_sel, edad_sel, widget, df_mapa, df_geo,
          estados_opts, estados_def, estados_sel, df_filtered, tab1, tab2, tab3>>

----------------------------------------------------------------------------
(* Bounds of the model *)

MaxRows == 2        \* rows of a table whose Topic / Age Group / location vary
MaxAggRows == 3     \* rows of a table whose location and Data_Value vary
MaxCellLen == 3     \* characters of a free numeric cell text
MaxGeoLen == 3      \* characters of a free geolocation text

----------------------------------------------------------------------------
(* Characters and text *)

Digits == {"0", "1", "2", "3", "4", "5", "6", "7", "8", "9"}

DigitVal(c) ==
  CASE c = "0" -> 0 [] c = "1" -> 1 [] c = "2" -> 2 [] c = "3" -> 3
    [] c = "4" -> 4 [] c = "5" -> 5 [] c = "6" -> 6 [] c = "7" -> 7
    [] c = "8" -> 8 [] c = "9" -> 9

\* Code point order of the characters that occur in labels (str.__lt__).
Ord(c) ==
  CASE c = "1" -> 49 [] c = "2" -> 50
    [] c = "A" -> 65 [] c = "C" -> 67 [] c = "I" -> 73 [] c = "L" -> 76
    [] c = "T" -> 84 [] c = "a" -> 97 [] c = "b" -> 98 [] c = "c" -> 99
    [] OTHER -> 0

RECURSIVE LexLess(_, _)
LexLess(a, b) ==
  IF b = <<>> THEN FALSE
  ELSE IF a = <<>> THEN TRUE
  ELSE IF Ord(Head(a)) # Ord(Head(b)) THEN Ord(Head(a)) < Ord(Head(b))
  ELSE LexLess(Tail(a), Tail(b))

----------------------------------------------------------------------------
(* Floats as exact rationals; the missing marker *)

RECURSIVE Gcd(_, _)
Gcd(a, b) == IF b = 0 THEN a ELSE Gcd(b, a % b)

Abs(x) == IF x < 0 THEN -x ELSE x

NaN == [kind |-> "nan", n |-> 0, d |-> 1, s |-> <<>>]
None == NaN
StrCell(t) == [kind |-> "str", n |-> 0, d |-> 1, s |-> t]

Float(num, den) ==
  LET g == Gcd(Abs(num), den)
  IN  [kind |-> "float", n |-> num \div g, d |-> den \div g, s |-> <<>>]

RECURSIVE Pow10(_)
Pow10(k) == IF k = 0 THEN 1 ELSE 10 * Pow10(k - 1)

RECURSIVE DigitsVal(_, _)
DigitsVal(t, acc) ==
  IF t = <<>> THEN acc ELSE DigitsVal(Tail(t), 10 * acc + DigitVal(Head(t)))

AllDigits(t) == \A i \in 1..Len(t) : t[i] \in Digits

\* float(text) / the number parser of read_csv and to_numeric: an optional
\* sign, digits with at most one '.', at least one digit; NaN when the text
\* is no number.
ParseFloat(t) ==
  LET signed == t # <<>> /\ Head(t) \in {"-", "+"}
      body == IF signed THEN Tail(t) ELSE t
      dots == {i \in 1..Len(body) : body[i] = "."}
      ip == IF dots = {} THEN body
            ELSE SubSeq(body, 1, (CHOOSE i \in dots : TRUE) - 1)
      fp == IF dots = {} THEN <<>>
            ELSE SubSeq(body, (CHOOSE i \in dots : TRUE) + 1, Len(body))
      mag == DigitsVal(ip \o fp, 0)
  IN  IF Cardinality(dots) > 1 \/ ~AllDigits(ip) \/ ~AllDigits(fp)
         \/ Len(ip) + Len(fp) = 0
      THEN NaN
      ELSE Float(IF signed /\ Head(t) = "-" THEN -mag ELSE mag, Pow10(Len(fp)))

----------------------------------------------------------------------------
(* extract_coords *)

\* First index >= i of t that holds no digit (Len(t) + 1 at the end).
RECURSIVE DigitRunEnd(_, _)
DigitRunEnd(t, i) ==
  IF i <= Len(t) /\ t[i] \in Digits THEN DigitRunEnd(t, i + 1) ELSE i

\* \d*\.\d+ from index j: the end of the match (exclusive), 0 when none.
\* \d* is greedy and gives digits back in vain: what follows a shorter run
\* is a digit, not '.'.
DecimalFrom(t, j) ==
  LET k == DigitRunEnd(t, j)
  IN  IF k + 1 <= Len(t) /\ t[k] = "." /\ t[k + 1] \in Digits
      THEN DigitRunEnd(t, k + 1) ELSE 0

\* [-+]?\d*\.\d+ at index i: with the sign taken first, then without it.
MatchDecimal(t, i) ==
  IF t[i] \in {"-", "+"} /\ DecimalFrom(t, i + 1) # 0
  THEN DecimalFrom(t, i + 1)
  ELSE DecimalFrom(t, i)

\* \d+ at index i.
MatchInteger(t, i) ==
  IF t[i] \in Digits THEN DigitRunEnd(t, i) ELSE 0

\* The pattern [-+]?\d*\.\d+|\d+ at index i: the first alternative that
\* matches wins.
MatchAt(t, i) ==
  IF MatchDecimal(t, i) # 0 THEN MatchDecimal(t, i) ELSE MatchInteger(t, i)

\* re.findall: the non-overlapping matches, left to right.
RECURSIVE FindAllFrom(_, _)
FindAllFrom(t, i) ==
  IF i > Len(t) THEN <<>>
  ELSE IF MatchAt(t, i) # 0
       THEN <<SubSeq(t, i, MatchAt(t, i) - 1)>> \o FindAllFrom(t, MatchAt(t, i))
       ELSE FindAllFrom(t, i + 1)

findall(t) == FindAllFrom(t, 1)

\* str.strip() = "": nothing but whitespace.
IsBlank(t) == \A i \in 1..Len(t) : t[i] = " "

\* extract_coords recovering a single coordinate from a single number.
extract_coords_partial(point_str) ==
  IF point_str.kind = "nan" \/ IsBlank(point_str.s) THEN <<None, None>>
  ELSE LET coords == findall(point_str.s)
       IN  IF Len(coords) >= 2
           THEN <<ParseFloat(coords[2]), ParseFloat(coords[1])>>
           ELSE IF Len(coords) = 1 THEN <<None, ParseFloat(coords[1])>>
           ELSE <<None, None>>

\* The (lat, lon) pair of one Geolocation cell.
extract_coords(point_str) ==
  IF point_str.kind = "nan" \/ IsBlank(point_str.s) THEN <<None, None>>
  ELSE LET coords == findall(point_str.s)
       IN  IF Len(coords) >= 2
           THEN IF ParseFloat(coords[2]).kind = "nan" \/ ParseFloat(coords[1]).kind = "nan"
                THEN <<None, None>>
                ELSE <<ParseFloat(coords[2]), ParseFloat(coords[1])>>
           ELSE <<None, None>>

----------------------------------------------------------------------------
(* load_data *)

NumCols == {"Data_Value", "Low_Confidence_Limit", "High_Confidence_Limit"}

\* pd.read_csv on one column of numeric text: a column all of whose cells
\* are empty or numbers is a float column (an empty cell is NaN); any other
\* column is an object column of the texts as they are, empty cells NaN.
read_csv_cell(rows, col, i) ==
  LET t == rows[i][col]
  IN  IF t = <<>> THEN NaN
      ELSE IF \A k \in 1..Len(rows) :
                 rows[k][col] = <<>> \/ ParseFloat(rows[k][col]).kind = "float"
           THEN ParseFloat(t)
           ELSE StrCell(t)

\* The table as read: the label columns as they are, the numeric columns
\* typed by column, a Geolocation cell NaN when empty and its text otherwise.
read_csv(rows) ==
  [i \in 1..Len(rows) |->
     [rows[i] EXCEPT
        !.Data_Value = read_csv_cell(rows, "Data_Value", i),
        !.Low_Confidence_Limit = read_csv_cell(rows, "Low_Confidence_Limit", i),
        !.High_Confidence_Limit = read_csv_cell(rows, "High_Confidence_Limit", i),
        !.Geolocation = IF @ = <<>> THEN NaN ELSE StrCell(@)]]

\* astype(str) of one cell: NaN prints as "nan".
astype_str(c) == IF c.kind = "str" THEN c.s ELSE <<"n", "a", "n">>

\* str.replace(',', '.'): every ',' becomes '.'.
RECURSIVE str_replace(_)
str_replace(t) ==
  IF t = <<>> THEN <<>>
  ELSE <<IF Head(t) = "," THEN "." ELSE Head(t)>> \o str_replace(Tail(t))

\* pd.to_numeric(errors='coerce') of one cell.
to_numeric(c) == IF c.kind = "str" THEN ParseFloat(c.s) ELSE c

\* The cleaning loop without the ',' replacement.
clean_column_noreplace(t, col) ==
  [i \in 1..Len(t) |-> [t[i] EXCEPT ![col] = to_numeric(@)]]

\* One pass of the cleaning loop over column col.
clean_column(t, col) ==
  IF \E k \in 1..Len(t) : t[k][col].kind = "str"      \* dtype == 'object'
  THEN [i \in 1..Len(t) |->
          [t[i] EXCEPT ![col] = to_numeric(StrCell(str_replace(astype_str(@))))]]
  ELSE [i \in 1..Len(t) |-> [t[i] EXCEPT ![col] = to_numeric(@)]]

clean_numeric(t) ==
  clean_column(clean_column(clean_column(t, "Data_Value"),
                            "Low_Confidence_Limit"), "High_Confidence_Limit")

\* df[['lat', 'lon']] = DataFrame(coords.tolist(), index=df.index)
add_coords(t) ==
  [i \in 1..Len(t) |->
     [Topic |-> t[i].Topic, Age_Group |-> t[i].Age_Group,
      LocationAbbr |-> t[i].LocationAbbr, LocationDesc |-> t[i].LocationDesc,
      Stratification1 |-> t[i].Stratification1,
      Data_Value |-> t[i].Data_Value,
      Low_Confidence_Limit |-> t[i].Low_Confidence_Limit,
      High_Confidence_Limit |-> t[i].High_Confidence_Limit,
      Geolocation |-> t[i].Geolocation,
      lat |-> extract_coords(t[i].Geolocation)[1],
      lon |-> extract_coords(t[i].Geolocation)[2]]]

NoTable == [kind |-> "None", rows |-> <<>>]
Unbound == [kind |-> "unbound", rows |-> <<>>]
DataFrame(t) == [kind |-> "DataFrame", rows |-> t]

\* load_data handing back an empty table, and no diagnostic, on a failure.
load_data_empty(f) ==
  IF ~f.readable \/ Len(f.rows) = 0
  THEN [value |-> DataFrame(<<>>), shown |-> <<>>]
  ELSE [value |-> DataFrame(add_coords(clean_numeric(read_csv(f.rows)))),
        shown |-> <<>>]

\* load_data: the table and the diagnostics it shows.  read_csv raises on a
\* resource it cannot read; a table of no rows gives coords.tolist() = [],
\* a frame of no columns, and the two-column assignment raises ValueError.
\* Either exception ends in the except branch.
load_data(f) ==
  IF ~f.readable
  THEN [value |-> NoTable, shown |-> <<"Error al cargar el archivo">>]
  ELSE IF Len(f.rows) = 0
  THEN [value |-> NoTable, shown |-> <<"Error al cargar el archivo">>]
  ELSE [value |-> DataFrame(add_coords(clean_numeric(read_csv(f.rows)))),
        shown |-> <<>>]

----------------------------------------------------------------------------
(* The dashboard's derived tables *)

\* Series.unique(): the values in order of first appearance.
RECURSIVE unique(_)
unique(q) ==
  IF q = <<>> THEN <<>>
  ELSE <<Head(q)>> \o unique(SelectSeq(Tail(q), LAMBDA x : x # Head(q)))

RECURSIVE Insert(_, _)
Insert(x, q) ==
  IF q = <<>> THEN <<x>>
  ELSE IF LexLess(x, Head(q)) THEN <<x>> \o q
  ELSE <<Head(q)>> \o Insert(x, Tail(q))

\* sorted() of a list of labels.
RECURSIVE sorted(_)
sorted(q) == IF q = <<>> THEN <<>> ELSE Insert(Head(q), sorted(Tail(q)))

Column(t, col) == [i \in 1..Len(t) |-> t[i][col]]

temas(d) == sorted(unique(Column(d.rows, "Topic")))
edades(d) == sorted(unique(Column(d.rows, "Age_Group")))

Unset == <<>>

\* st.selectbox: the session's value, the first option on the first run.
selectbox(options, current) ==
  IF current # Unset THEN current
  ELSE IF options = <<>> THEN Unset ELSE options[1]

\* The primary filter with | in place of &.
select_primary_or(t, tema, edad) ==
  SelectSeq(t, LAMBDA r : r.Topic = tema \/ r.Age_Group = edad)

\* df[(df['Topic'] == tema_sel) & (df['Age Group'] == edad_sel)]
select_primary(t, tema, edad) ==
  SelectSeq(t, LAMBDA r : r.Topic = tema /\ r.Age_Group = edad)

\* The secondary filter with an empty selection read as "match all".
select_locations_all(t, estados) ==
  IF estados = <<>> THEN t
  ELSE SelectSeq(t, LAMBDA r : \E k \in 1..Len(estados) : estados[k] = r.LocationDesc)

\* df_mapa[df_mapa['LocationDesc'].isin(estados_sel)]
select_locations(t, estados) ==
  SelectSeq(t, LAMBDA r : \E k \in 1..Len(estados) : estados[k] = r.LocationDesc)

\* groupby([...])['Data_Value'].mean(): one running (sum, count) per key, in
\* order of first appearance; NaN values are skipped.
RECURSIVE group_sums(_, _)
group_sums(t, acc) ==
  IF t = <<>> THEN acc
  ELSE LET r == Head(t)
           key == <<r.LocationAbbr, r.LocationDesc>>
           v == r.Data_Value
           at == {k \in 1..Len(acc) : acc[k].key = key}
           add(g) == IF v.kind = "float"
                     THEN [g EXCEPT !.sn = g.sn * v.d + v.n * g.sd,
                                    !.sd = g.sd * v.d, !.cnt = @ + 1]
                     ELSE g
           fresh == [key |-> key, sn |-> 0, sd |-> 1, cnt |-> 0]
       IN  group_sums(Tail(t),
             IF at = {} THEN Append(acc, add(fresh))
             ELSE [k \in 1..Len(acc) |-> IF k \in at THEN add(acc[k]) ELSE acc[k]])

KeyLess(a, b) == LexLess(a[1], b[1]) \/ (a[1] = b[1] /\ LexLess(a[2], b[2]))

RECURSIVE InsertGroup(_, _)
InsertGroup(g, q) ==
  IF q = <<>> THEN <<g>>
  ELSE IF KeyLess(g.key, Head(q).key) THEN <<g>> \o q
  ELSE <<Head(q)>> \o InsertGroup(g, Tail(q))

RECURSIVE sort_groups(_)
sort_groups(q) ==
  IF q = <<>> THEN <<>> ELSE InsertGroup(Head(q), sort_groups(Tail(q)))

\* The mean with a group of no values counted as zero.
group_mean_zero(g) == IF g.cnt = 0 THEN Float(0, 1) ELSE Float(g.sn, g.sd * g.cnt)

group_mean(g) == IF g.cnt = 0 THEN NaN ELSE Float(g.sn, g.sd * g.cnt)

\* df_mapa.groupby(['LocationAbbr', 'LocationDesc'])['Data_Value'].mean()
\* .reset_index(): the groups sorted by key, each with its mean.
groupby_mean(t) ==
  LET gs == sort_groups(group_sums(t, <<>>))
  IN  [k \in 1..Len(gs) |->
         [LocationAbbr |-> gs[k].key[1], LocationDesc |-> gs[k].key[2],
          Data_Value |-> group_mean(gs[k])]]

DefaultCount == 5

\* The options taken from the whole table instead of the primary result.
location_options_full(t) == sorted(unique(Column(df.rows, "LocationDesc")))

\* options= and default= of the multiselect.
location_options(t) == sorted(unique(Column(t, "LocationDesc")))
location_default(t) ==
  LET o == location_options(t)
  IN  SubSeq(o, 1, IF Len(o) < DefaultCount THEN Len(o) ELSE DefaultCount)

NoChoice == [set |-> FALSE, opts |-> <<>>, def |-> <<>>, value |-> <<>>]

\* st.multiselect: the user's choice while the widget is the one it was made
\* on (same options and default), the default otherwise.
multiselect(options, default, w) ==
  IF w.set /\ w.opts = options /\ w.def = default THEN w.value ELSE default

Blank == [kind |-> "blank", data |-> <<>>]

\* tab2's body: the two charts of df_filtered, or the warning.
comparison_view(filtered) ==
  IF filtered # <<>>
  THEN [kind |-> "charts", data |-> filtered]
  ELSE [kind |-> "warning", data |-> <<>>]

\* The data table without the fallback to the primary result.
table_view_strict(filtered, mapa) == [kind |-> "dataframe", data |-> filtered]

\* st.dataframe(df_filtered if not df_filtered.empty else df_mapa)
table_view(filtered, mapa) ==
  [kind |-> "dataframe", data |-> IF filtered # <<>> THEN filtered ELSE mapa]

----------------------------------------------------------------------------
(* One run of the script, and the user's changes that start the next *)

Range(q) == {q[k] : k \in 1..Len(q)}

\* line 50, under @st.cache_data: the first run computes load_data; a later
\* run gets the cached value, and the cached st.error is replayed.
Load ==
  /\ pc = "start"
  /\ LET r == IF cache.hit THEN cache.result ELSE load_data(file)
     IN  /\ df' = r.value
         /\ errors' = errors \o r.shown
         /\ cache' = [hit |-> TRUE, result |-> r]
  /\ pc' = "loaded"
  /\ UNCHANGED <<file, tema_sel, edad_sel, widget, df_mapa, df_geo, estados_opts,
                 estados_def, estados_sel, df_filtered, tab1, tab2, tab3>>

\* The else branch of "if df is not None".
MainElse ==
  /\ pc = "loaded"
  /\ df.kind = "None"
  /\ errors' = Append(errors, "No se pudo inicializar el dashboard")
  /\ pc' = "done"
  /\ UNCHANGED <<file, cache, df, tema_sel, edad_sel, widget, df_mapa, df_geo,
                 estados_opts, estados_def, estados_sel, df_filtered,
                 tab1, tab2, tab3>>

\* The sidebar with the primary filter applied to df in place.
Sidebar_inplace ==
  /\ pc = "loaded"
  /\ df.kind = "DataFrame"
  /\ tema_sel' = selectbox(temas(df), tema_sel)
  /\ edad_sel' = selectbox(edades(df), edad_sel)
  /\ df_mapa' = select_primary(df.rows, tema_sel', edad_sel')
  /\ df' = DataFrame(df_mapa')
  /\ pc' = "sidebar"
  /\ UNCHANGED <<file, cache, errors, widget, df_geo, estados_opts,
                 estados_def, estados_sel, df_filtered, tab1, tab2, tab3>>

\* The sidebar's two selectboxes and the primary filter.
Sidebar ==
  /\ pc = "loaded"
  /\ df.kind = "DataFrame"
  /\ tema_sel' = selectbox(temas(df), tema_sel)
  /\ edad_sel' = selectbox(edades(df), edad_sel)
  /\ df_mapa' = select_primary(df.rows, tema_sel', edad_sel')
  /\ pc' = "sidebar"
  /\ UNCHANGED <<file, cache, df, errors, widget, df_geo, estados_opts,
                 estados_def, estados_sel, df_filtered, tab1, tab2, tab3>>

\* tab1: the aggregate and the choropleth drawn from it.
Tab1 ==
  /\ pc = "sidebar"
  /\ df_geo' = groupby_mean(df_mapa)
  /\ tab1' = [kind |-> "choropleth", data |-> df_geo']
  /\ pc' = "tab1"
  /\ UNCHANGED <<file, cache, df, errors, tema_sel, edad_sel, widget, df_mapa,
                 estados_opts, estados_def, estados_sel, df_filtered, tab2, tab3>>

\* tab2: the multiselect, the secondary filter, the charts or the warning.
Tab2 ==
  /\ pc = "tab1"
  /\ estados_opts' = location_options(df_mapa)
  /\ estados_def' = location_default(df_mapa)
  /\ estados_sel' = multiselect(estados_opts', estados_def', widget)
  /\ widget' = IF widget.set /\ widget.opts = estados_opts' /\ widget.def = estados_def'
               THEN widget ELSE NoChoice
  /\ df_filtered' = select_locations(df_mapa, estados_sel')
  /\ tab2' = comparison_view(df_filtered')
  /\ pc' = "tab2"
  /\ UNCHANGED <<file, cache, df, errors, tema_sel, edad_sel, df_mapa, df_geo,
                 tab1, tab3>>

\* tab3: the data table.
Tab3 ==
  /\ pc = "tab2"
  /\ tab3' = table_view(df_filtered, df_mapa)
  /\ pc' = "done"
  /\ UNCHANGED <<file, cache, df, errors, tema_sel, edad_sel, widget, df_mapa,
                 df_geo, estados_opts, estados_def, estados_sel, df_filtered,
                 tab1, tab2>>

\* A rerun starts the script from the top with nothing bound and nothing
\* drawn; the widgets' values and the cache are the session's.
Restart ==
  /\ pc' = "start"
  /\ df' = Unbound
  /\ errors' = <<>>
  /\ df_mapa' = <<>>
  /\ df_geo' = <<>>
  /\ estados_opts' = <<>>
  /\ estados_def' = <<>>
  /\ estados_sel' = <<>>
  /\ df_filtered' = <<>>
  /\ tab1' = Blank
  /\ tab2' = Blank
  /\ tab3' = Blank
  /\ UNCHANGED <<file, cache>>

ChangeTopic(t) ==
  /\ pc = "done"
  /\ df.kind = "DataFrame"
  /\ t \in Range(temas(df)) \ {tema_sel}
  /\ tema_sel' = t
  /\ Restart
  /\ UNCHANGED <<edad_sel, widget>>

ChangeAge(a) ==
  /\ pc = "done"
  /\ df.kind = "DataFrame"
  /\ a \in Range(edades(df)) \ {edad_sel}
  /\ edad_sel' = a
  /\ Restart
  /\ UNCHANGED <<tema_sel, widget>>

\* One click in the multiselect: an option is added to the selection or
\* taken out of it.
ToggleState(l) ==
  /\ pc = "done"
  /\ df.kind = "DataFrame"
  /\ l \in Range(estados_opts)
  /\ widget' = [set |-> TRUE, opts |-> estados_opts, def |-> estados_def,
                value |-> IF l \in Range(estados_sel)
                          THEN SelectSeq(estados_sel, LAMBDA x : x # l)
                          ELSE Append(estados_sel, l)]
  /\ Restart
  /\ UNCHANGED <<tema_sel, edad_sel>>

\* The user reruns the script with no widget changed.
Rerun ==
  /\ pc = "done"
  /\ Restart
  /\ UNCHANGED <<tema_sel, edad_sel, widget>>

Labels == {<<"T", "1">>, <<"T", "2">>, <<"A", "1">>, <<"A", "2">>,
           <<"a">>, <<"a", "a">>, <<"a", "b">>, <<"b">>, <<"b", "a">>, <<"c">>,
           <<"C", "a">>, <<"L", "a">>}

Next ==
  \/ Load
  \/ MainElse
  \/ Sidebar
  \/ Tab1
  \/ Tab2
  \/ Tab3
  \/ \E t \in Labels : ChangeTopic(t)
  \/ \E a \in Labels : ChangeAge(a)
  \/ \E l \in Labels : ToggleState(l)
  \/ Rerun

----------------------------------------------------------------------------
(* The input resources the specifications start from *)

T1 == <<"T", "1">>
T2 == <<"T", "2">>
A1 == <<"A", "1">>
A2 == <<"A", "2">>
IL == <<"I", "L">>
CA == <<"C", "A">>

BaseRow ==
  [Topic |-> T1, Age_Group |-> A1, LocationAbbr |-> IL, LocationDesc |-> <<"a">>,
   Stratification1 |-> <<"a">>, Data_Value |-> <<"1", "0">>,
   Low_Confidence_Limit |-> <<>>, High_Confidence_Limit |-> <<>>,
   Geolocation |-> <<>>]

\* Sequences over S of length lo..hi.
SeqsOf(S, lo, hi) == UNION {[1..n -> S] : n \in lo..hi}

Unreadable == [readable |-> FALSE, rows |-> <<>>]
Readable(rows) == [readable |-> TRUE, rows |-> rows]

InitRun(files) ==
  /\ file \in files \cup {Unreadable}
  /\ cache = [hit |-> FALSE, result |-> [value |-> NoTable, shown |-> <<>>]]
  /\ pc = "start"
  /\ df = Unbound
  /\ errors = <<>>
  /\ tema_sel = Unset
  /\ edad_sel = Unset
  /\ widget = NoChoice
  /\ df_mapa = <<>>
  /\ df_geo = <<>>
  /\ estados_opts = <<>>
  /\ estados_def = <<>>
  /\ estados_sel = <<>>
  /\ df_filtered = <<>>
  /\ tab1 = Blank
  /\ tab2 = Blank
  /\ tab3 = Blank

\* Tables whose Topic, Age Group and location vary.
Loc1 == [abbr |-> IL, desc |-> <<"C", "a">>]
Loc2 == [abbr |-> CA, desc |-> <<"L", "a">>]

DashRows ==
  {[BaseRow EXCEPT !.Topic = t, !.Age_Group = a,
                   !.LocationAbbr = l.abbr, !.LocationDesc = l.desc] :
     t \in {T1, T2}, a \in {A1, A2}, l \in {Loc1, Loc2}}

DashFiles == {Readable(q) : q \in SeqsOf(DashRows, 0, MaxRows)}

Init == InitRun(DashFiles)

Spec == Init /\ [][Next]_vars

----------------------------------------------------------------------------
(* Geolocation inputs *)

\* A number as it is written: a sign, an integer part, a fractional part
\* (fp = <<>>: no '.'), and what it denotes.
Signs == {<<>>, <<"-">>, <<"+">>}
IntParts == {<<>>, <<"7">>, <<"8", "7">>}
FracParts == {<<>>, <<"7">>, <<"2", "5">>}

NumToks ==
  {k \in [sign : Signs, ip : IntParts, fp : FracParts] : k.ip # <<>> \/ k.fp # <<>>}

Render(k) == k.sign \o k.ip \o (IF k.fp = <<>> THEN <<>> ELSE <<".">> \o k.fp)

IntPartValue(ip) == CASE ip = <<>> -> 0 [] ip = <<"7">> -> 7 [] ip = <<"8", "7">> -> 87
FracNum(fp) == CASE fp = <<>> -> 0 [] fp = <<"7">> -> 7 [] fp = <<"2", "5">> -> 1
FracDen(fp) == CASE fp = <<>> -> 1 [] fp = <<"7">> -> 10 [] fp = <<"2", "5">> -> 4

\* The number a token denotes, sign included.
NumValue(k) ==
  LET mag == IntPartValue(k.ip) * FracDen(k.fp) + FracNum(k.fp)
  IN  Float(IF k.sign = <<"-">> THEN -mag ELSE mag, FracDen(k.fp))

POINT == <<"P", "O", "I", "N", "T", " ", "(">>

PointText(a, b) == POINT \o Render(a) \o <<" ">> \o Render(b) \o <<")">>
PointText3(a, b, c) ==
  POINT \o Render(a) \o <<" ">> \o Render(b) \o <<" ">> \o Render(c) \o <<")">>
SingleText(a) == POINT \o Render(a) \o <<")">>

Seven == [sign |-> <<>>, ip |-> <<"7">>, fp |-> <<>>]

GeoAlphabet == {"7", ".", "-", " ", "N"}

GeoTexts ==
  {PointText(a, b) : a \in NumToks, b \in NumToks}
    \cup {PointText3(a, b, Seven) : a \in NumToks, b \in {Seven}}
    \cup {SingleText(a) : a \in NumToks}
    \cup {Render(a) : a \in NumToks}
    \cup {<<"N", "/", "A">>}
    \cup SeqsOf(GeoAlphabet, 0, MaxGeoLen)

SmallGeoTexts ==
  {<<>>, SingleText(Seven), PointText(Seven, Seven), <<"7", " ", ".", "7", " ", "7">>}

GeoFiles ==
  {Readable(<<[BaseRow EXCEPT !.Geolocation = g]>>) : g \in GeoTexts}
    \cup {Readable(<<[BaseRow EXCEPT !.Geolocation = g],
                     [BaseRow EXCEPT !.Geolocation = h]>>) :
            g \in SmallGeoTexts, h \in SmallGeoTexts}

InitGeo == InitRun(GeoFiles \cup DashFiles)

SpecGeo == InitGeo /\ [][Next]_vars

----------------------------------------------------------------------------
(* Numeric inputs *)

NumAlphabet == {"1", ",", ".", "-", "x"}

CommaRender(k) == k.sign \o k.ip \o <<",">> \o k.fp

NumTexts ==
  SeqsOf(NumAlphabet, 0, MaxCellLen)
    \cup {CommaRender(k) : k \in {j \in NumToks : j.fp # <<>>}}
    \cup {Render(k) : k \in NumToks}

SmallNumTexts == {<<>>, <<"2">>, <<"1", ",", "5">>, <<"x">>}

NumFiles ==
  {Readable(<<[BaseRow EXCEPT ![c] = t]>>) : c \in NumCols, t \in NumTexts}
    \cup {Readable(<<[BaseRow EXCEPT ![c] = t], [BaseRow EXCEPT ![c] = u]>>) :
            c \in NumCols, t \in SmallNumTexts, u \in SmallNumTexts}

InitNum == InitRun(NumFiles \cup DashFiles)

SpecNum == InitNum /\ [][Next]_vars

----------------------------------------------------------------------------
(* Inputs of the aggregate: one topic and age group, the location and the
   value vary *)

AggRows ==
  {[BaseRow EXCEPT !.LocationAbbr = l.abbr, !.LocationDesc = l.desc,
                   !.Data_Value = v] :
     l \in {Loc1, Loc2}, v \in {<<"1", "0">>, <<"2", "0">>, <<>>}}

AggFiles == {Readable(q) : q \in SeqsOf(AggRows, 1, MaxAggRows)}

InitAgg == InitRun(AggFiles \cup DashFiles)

SpecAgg == InitAgg /\ [][Next]_vars

----------------------------------------------------------------------------
(* Inputs of the multiselect: six locations, each under topic T1 or not in
   the table, the rows in descending order of name; topic T2 has no row, a
   row of a location of its own, or a row of a location T1 may have too *)

LocNames == <<<<"c">>, <<"b", "a">>, <<"b">>, <<"a", "b">>, <<"a", "a">>, <<"a">>>>

LocTable(S) ==
  LET present == SelectSeq([k \in 1..Len(LocNames) |-> k], LAMBDA k : k \in S)
  IN  [j \in 1..Len(present) |->
         [BaseRow EXCEPT !.LocationDesc = LocNames[present[j]]]]

OtherTopicRows ==
  {<<>>,
   <<[BaseRow EXCEPT !.Topic = T2, !.LocationDesc = <<"L", "a">>]>>,
   <<[BaseRow EXCEPT !.Topic = T2, !.LocationDesc = <<"a">>]>>}

LocFiles ==
  {Readable(o \o LocTable(S)) : S \in SUBSET (1..Len(LocNames)), o \in OtherTopicRows}

InitLocs == InitRun(LocFiles \cup DashFiles)

SpecLocs == InitLocs /\ [][Next]_vars

----------------------------------------------------------------------------
(* Claims about extract_coords (checked under SpecGeo) *)

Loaded == df.kind = "DataFrame"

\* C1: for every geolocation text POINT (<lon> <lat>), with or without a
\* third number, whose numbers are signed decimals or signed integers, the
\* loaded row has lon = the value of the first number and lat = the value of
\* the second, signs included.
C1_PointTextGivesLatLon ==
  (pc = "loaded" /\ Loaded) =>
    \A i \in 1..Len(file.rows) : \A a \in NumToks, b \in NumToks :
      (file.rows[i].Geolocation = PointText(a, b)
         \/ file.rows[i].Geolocation = PointText3(a, b, Seven))
      => /\ df.rows[i].lat = NumValue(b)
         /\ df.rows[i].lon = NumValue(a)

\* A text with fewer than two numbers: blank, without any digit, or one
\* number alone or inside POINT (...).
FewNumbers(t) ==
  \/ IsBlank(t)
  \/ \A k \in 1..Len(t) : t[k] \notin Digits
  \/ \E a \in NumToks : t = Render(a) \/ t = SingleText(a)

\* C2: a null, blank or fewer-than-two-numbers geolocation gives lat and lon
\* both absent and the load does not fail on it; in every row of the loaded
\* table lat and lon are both present or both absent.
C2_BothOrNeither ==
  /\ (pc # "start" /\ file.readable /\ file.rows # <<>>) => Loaded
  /\ Loaded =>
       \A i \in 1..Len(df.rows) :
         /\ (df.rows[i].lat.kind = "nan") <=> (df.rows[i].lon.kind = "nan")
         /\ FewNumbers(file.rows[i].Geolocation)
              => df.rows[i].lat = None /\ df.rows[i].lon = None

C2_Witness ==
  /\ Loaded
  /\ \E i \in 1..Len(df.rows) :
       /\ file.rows[i].Geolocation = SingleText(Seven)
       /\ df.rows[i].lat = None
       /\ df.rows[i].lon = None
  /\ \E i \in 1..Len(df.rows) : df.rows[i].lat.kind = "float"

----------------------------------------------------------------------------
(* Claim about the numeric coercion (checked under SpecNum) *)

\* The text with every ',' replaced by '.'.
Dotted(t) == [k \in 1..Len(t) |-> IF t[k] = "," THEN "." ELSE t[k]]

DottedFile ==
  Readable([i \in 1..Len(file.rows) |->
              [file.rows[i] EXCEPT !.Data_Value = Dotted(@),
                                   !.Low_Confidence_Limit = Dotted(@),
                                   !.High_Confidence_Limit = Dotted(@)]])

\* C3: in each of the three numeric columns a cell written with ',' as the
\* decimal separator is coerced to the float of the same text written with
\* '.' ("87,25" -> 87.25); every cell of these columns of the loaded table
\* is a float or the missing marker, and no text makes the load fail.
C3_CommaAsDot ==
  /\ (pc # "start" /\ file.readable /\ file.rows # <<>>) => Loaded
  /\ Loaded =>
       \A i \in 1..Len(df.rows) : \A c \in NumCols :
         df.rows[i][c].kind \in {"float", "nan"}
  /\ (pc = "loaded" /\ Loaded) =>
       LET dotted == load_data(DottedFile).value.rows
       IN  \A i \in 1..Len(df.rows) : \A c \in NumCols :
         /\ df.rows[i][c] = dotted[i][c]
         /\ \A k \in NumToks :
              (k.fp # <<>> /\ file.rows[i][c] = CommaRender(k))
                => df.rows[i][c] = NumValue(k)

C3_Witness ==
  /\ Loaded
  /\ Len(df.rows) = 2
  /\ file.rows[1].Low_Confidence_Limit = <<"1", ",", "5">>
  /\ df.rows[1].Low_Confidence_Limit = Float(3, 2)
  /\ file.rows[2].Low_Confidence_Limit = <<"x">>
  /\ df.rows[2].Low_Confidence_Limit = NaN

----------------------------------------------------------------------------
(* Claims about the filters and the aggregate *)

Shown == pc \in {"tab2", "done"} /\ Loaded

DistinctLocations(t) == {t[i].LocationDesc : i \in 1..Len(t)}

\* C5: for a location set within the primary result's distinct locations,
\* filtering the primary result by location gives the rows, in the order,
\* that filtering the whole table by topic AND age group AND location gives.
C5_FilterComposition ==
  (Shown /\ Range(estados_sel) \subseteq DistinctLocations(df_mapa)) =>
    df_filtered =
      SelectSeq(df.rows, LAMBDA r : /\ r.Topic = tema_sel
                                    /\ r.Age_Group = edad_sel
                                    /\ r.LocationDesc \in Range(estados_sel))

C5_Witness ==
  /\ Shown
  /\ df_filtered # <<>>
  /\ Len(df_filtered) < Len(df_mapa)
  /\ Len(df_mapa) < Len(df.rows)

GroupKeys(t) == {<<t[i].LocationAbbr, t[i].LocationDesc>> : i \in 1..Len(t)}

\* The rows of a group that have a value.
Valued(t, key) ==
  {i \in 1..Len(t) : /\ <<t[i].LocationAbbr, t[i].LocationDesc>> = key
                     /\ t[i].Data_Value.kind = "float"}

RECURSIVE DenProduct(_, _)
DenProduct(t, I) ==
  IF I = {} THEN 1
  ELSE LET i == CHOOSE x \in I : TRUE
       IN  t[i].Data_Value.d * DenProduct(t, I \ {i})

\* The sum of the values of rows I, as a numerator over DenProduct(t, I).
RECURSIVE NumSum(_, _)
NumSum(t, I) ==
  IF I = {} THEN 0
  ELSE LET i == CHOOSE x \in I : TRUE
       IN  t[i].Data_Value.n * DenProduct(t, I \ {i})
             + t[i].Data_Value.d * NumSum(t, I \ {i})

\* v is the arithmetic mean of the values of rows I: missing when there is
\* none.
IsMeanOf(v, t, I) ==
  IF I = {} THEN v = NaN
  ELSE /\ v.kind = "float"
       /\ v.d > 0
       /\ v.n * DenProduct(t, I) * Cardinality(I) = v.d * NumSum(t, I)

RowOrders(n) ==
  {p \in [1..n -> 1..n] : \A i \in 1..n : \A j \in 1..n : p[i] = p[j] => i = j}

\* C6: the map aggregate has one entry per distinct (LocationAbbr,
\* LocationDesc) pair of the primary result; its value is the mean of the
\* pair's non-missing Data_Value entries, missing when all are missing; and
\* the aggregate is the same for every order of the rows.
C6_GroupMean ==
  (pc \in {"tab1", "tab2", "done"} /\ Loaded) =>
    /\ {<<df_geo[k].LocationAbbr, df_geo[k].LocationDesc>> : k \in 1..Len(df_geo)}
         = GroupKeys(df_mapa)
    /\ Len(df_geo) = Cardinality(GroupKeys(df_mapa))
    /\ \A k \in 1..Len(df_geo) :
         IsMeanOf(df_geo[k].Data_Value, df_mapa,
                  Valued(df_mapa, <<df_geo[k].LocationAbbr, df_geo[k].LocationDesc>>))
    /\ \A p \in RowOrders(Len(df_mapa)) :
         groupby_mean([i \in 1..Len(df_mapa) |-> df_mapa[p[i]]]) = df_geo

\* Rows (IL, 10), (IL, 20), (CA, missing) give {IL: 15, CA: missing}.
C6_Witness ==
  /\ pc = "tab1"
  /\ Loaded
  /\ Len(df_mapa) = 3
  /\ df_mapa[1].LocationAbbr = IL /\ df_mapa[1].Data_Value = Float(10, 1)
  /\ df_mapa[2].LocationAbbr = IL /\ df_mapa[2].Data_Value = Float(20, 1)
  /\ df_mapa[3].LocationAbbr = CA /\ df_mapa[3].Data_Value = NaN
  /\ df_geo = <<[LocationAbbr |-> CA, LocationDesc |-> Loc2.desc, Data_Value |-> NaN],
                [LocationAbbr |-> IL, LocationDesc |-> Loc1.desc,
                 Data_Value |-> Float(15, 1)]>>

----------------------------------------------------------------------------
(* Claims about the run as a whole *)

NothingDownstream ==
  /\ tema_sel = Unset /\ edad_sel = Unset
  /\ df_mapa = <<>> /\ df_geo = <<>> /\ df_filtered = <<>>
  /\ estados_opts = <<>> /\ estados_def = <<>> /\ estados_sel = <<>>
  /\ tab1 = Blank /\ tab2 = Blank /\ tab3 = Blank

\* C4 as stated: when the resource cannot be read, the run ends with no
\* table, exactly one diagnostic, and no downstream step executed.
C4_OneDiagnostic ==
  (~file.readable /\ pc = "done") =>
    /\ df = NoTable
    /\ Len(errors) = 1
    /\ NothingDownstream

\* C4 as amended: when the resource cannot be read, load_data yields None
\* and shows one diagnostic, the script's else branch shows a second one, and
\* no downstream step is executed.
C4_TwoDiagnostics ==
  ~file.readable =>
    /\ pc \in {"start", "loaded", "done"}
    /\ pc # "start" => df = NoTable
    /\ pc = "loaded" => errors = <<"Error al cargar el archivo">>
    /\ pc = "done" => errors = <<"Error al cargar el archivo",
                                 "No se pudo inicializar el dashboard">>
    /\ NothingDownstream

C4_Witness ==
  /\ ~file.readable
  /\ pc = "done"
  /\ df = NoTable
  /\ Len(errors) = 2

\* C7 as stated (a view that shows no rows counted as a "no data" state):
\* when a selection matches no row, no view that consumes the empty subset
\* shows rows, and nothing is reported as an error.
C7_EmptySelectionShowsNoRows ==
  (pc = "done" /\ Loaded) =>
    /\ errors = <<>>
    /\ df_mapa = <<>> => tab1.data = <<>>
    /\ df_filtered = <<>> => tab2.data = <<>> /\ tab3.data = <<>>

\* C7 as amended: an empty primary result gives an empty aggregate, an empty
\* map, the warning and an empty table; an empty secondary result gives the
\* warning in place of the charts, and the table then shows the whole
\* primary result; no error is reported.
C7_EmptySelectionViews ==
  (pc = "done" /\ Loaded) =>
    /\ errors = <<>>
    /\ df_mapa = <<>> =>
         /\ df_geo = <<>>
         /\ tab1 = [kind |-> "choropleth", data |-> <<>>]
         /\ df_filtered = <<>>
    /\ df_filtered = <<>> =>
         /\ tab2 = [kind |-> "warning", data |-> <<>>]
         /\ tab3 = [kind |-> "dataframe", data |-> df_mapa]
    /\ df_filtered # <<>> =>
         /\ tab2 = [kind |-> "charts", data |-> df_filtered]
         /\ tab3 = [kind |-> "dataframe", data |-> df_filtered]

C7_Witness ==
  /\ pc = "done"
  /\ Loaded
  /\ df_filtered = <<>>
  /\ df_mapa # <<>>
  /\ tab2.kind = "warning"
  /\ tab3.data = df_mapa

\* C8 as stated: with no location chosen the secondary-stage subset is the
\* whole primary result.
C8_NoLocationMatchesAll ==
  (Shown /\ estados_sel = <<>>) => df_filtered = df_mapa

\* C8 as amended: the secondary-stage subset holds the rows that have the
\* selected topic AND the selected age group AND a selected location; with
\* no location selected it is empty.
C8_NoLocationMatchesNone ==
  Shown =>
    /\ Range(df_filtered) =
         {r \in Range(df.rows) : /\ r.Topic = tema_sel
                                 /\ r.Age_Group = edad_sel
                                 /\ r.LocationDesc \in Range(estados_sel)}
    /\ estados_sel = <<>> => df_filtered = <<>>

C8_Witness ==
  /\ Shown
  /\ estados_sel = <<>>
  /\ df_mapa # <<>>
  /\ df_filtered = <<>>

Ascending(q) == \A i \in 1..Len(q) : \A j \in 1..Len(q) : i < j => LexLess(q[i], q[j])

\* C9: the multiselect offers exactly the distinct locations of the current
\* primary result, in lexicographic order; with no explicit choice the
\* applied set is the first min(5, n) of them; the applied set is always
\* within the primary result's distinct locations.
C9_LocationCandidates ==
  Shown =>
    /\ Range(estados_opts) = DistinctLocations(df_mapa)
    /\ Ascending(estados_opts)
    /\ ~widget.set =>
         /\ Len(estados_sel) = IF Len(estados_opts) < 5 THEN Len(estados_opts) ELSE 5
         /\ \A k \in 1..Len(estados_sel) : estados_sel[k] = estados_opts[k]
    /\ Range(estados_sel) \subseteq DistinctLocations(df_mapa)

C9_Witness ==
  /\ Shown
  /\ ~widget.set
  /\ Len(estados_opts) = 6
  /\ Len(estados_sel) = 5
  /\ \E i \in 1..Len(df.rows) : df.rows[i].LocationDesc \notin Range(estados_opts)

\* C10: once loaded, the cleaned table is what load_data produced, in every
\* later step of the run and in every later run: the cache entry never
\* changes, no step rebinds or changes df, and a rerun gets the same table.
C10_TableNeverChanges ==
  [][/\ cache.hit => cache' = cache
     /\ (df.kind = "DataFrame" /\ df'.kind # "unbound") => df' = df
     /\ df'.kind = "DataFrame" => df' = cache'.result.value]_vars

C10_Witness ==
  /\ pc = "done"
  /\ Loaded
  /\ df = cache.result.value
  /\ widget.set
  /\ tema_sel = T2
  /\ df_mapa # <<>>
  /\ Len(df_mapa) < Len(df.rows)

====
